---- MODULE Spec2Model ----
(***************************************************************************)
(* odbc-api: the decimal text scaler (conversion.rs, decimal_text_to_i128) *)
(* and the return code classifier (handles/error.rs, into_result).         *)
(*                                                                         *)
(* Texts are sequences of ASCII byte values.  The result type i128 is      *)
(* modelled as a two's complement integer of Bits bits: TLC's integers     *)
(* cannot hold 2^127, so the width is scaled down and every arithmetic     *)
(* step is taken modulo 2^Bits exactly as the i128 step is taken modulo    *)
(* 2^128.  An overflowing +, - or * panics in a build with overflow checks *)
(* and wraps in a build without them; the build is chosen in Init.         *)
(***************************************************************************)
EXTENDS Integers, Sequences, FiniteSets, TLC

VARIABLES
    sign, int_digits, radix, frac_digits,  \* the parts the input text is made of
    scale,                                 \* decimal_text_to_i128's scale argument
    overflow_checks,                       \* the build: TRUE panics on overflow, FALSE wraps
    pc,                                    \* position in decimal_text_to_i128
    lhs, num_digits_lhs, rhs, num_digits_rhs, n, i,
    overflowed,                            \* history: some step left the integer range
    ret, handle,                           \* into_result's self and the handle's records
    c_pc, rec, result, lookups, logs, events

dvars == <<sign, int_digits, radix, frac_digits, scale, overflow_checks, pc,
           lhs, num_digits_lhs, rhs, num_digits_rhs, n, i, overflowed>>
cvars == <<ret, handle, c_pc, rec, result, lookups, logs, events>>
vars == <<dvars, cvars>>

-----------------------------------------------------------------------------
(* Bounds of the model *)

Bits == 26
MaxFracDigits == 2
MaxScale == 2
MaxRangeFracDigits == 7
MaxRangeScale == 2
MaxRecords == 2

-----------------------------------------------------------------------------
(* Bytes *)

PLUS == 43
COMMA == 44
MINUS == 45
DOT == 46
ZERO == 48
NINE == 57

IsDigit(b) == ZERO <= b /\ b <= NINE

\* atoi's ascii_to_digit: the value of a digit byte
AsciiToDigit(b) == b - ZERO

\* The text handed to decimal_text_to_i128
text == sign \o int_digits \o radix \o frac_digits

-----------------------------------------------------------------------------
(* i128 arithmetic, at Bits bits *)

RECURSIVE Pow(_, _)
Pow(b, k) == IF k = 0 THEN 1 ELSE b * Pow(b, k - 1)

MinInt == -Pow(2, Bits - 1)
MaxInt == Pow(2, Bits - 1) - 1

Fits(x) == MinInt <= x /\ x <= MaxInt

\* two's complement wrap-around into [MinInt, MaxInt]
Wrap(x) == ((x - MinInt) % Pow(2, Bits)) + MinInt

\* division rounding toward negative infinity
FloorDiv(a, b) == a \div b
\* Rust's integer division: floor of the magnitude, sign kept
TruncDiv(a, b) == IF a >= 0 THEN a \div b ELSE -((-a) \div b)

-----------------------------------------------------------------------------
(* atoi: FromRadix10Signed and FromRadix10 for i128 *)

\* The digit loop of both parsers: from 0-based index, accumulate digits until a
\* byte is no digit or the text ends; the negative loop subtracts each digit.
RECURSIVE DigitLoop(_, _, _, _, _)
DigitLoop(t, index, number, neg, ovf) ==
    IF index = Len(t) \/ ~IsDigit(t[index + 1])
    THEN [num |-> number, len |-> index, ovf |-> ovf]
    ELSE LET m == number * 10
             a == IF neg THEN Wrap(m) - AsciiToDigit(t[index + 1])
                         ELSE Wrap(m) + AsciiToDigit(t[index + 1])
         IN  DigitLoop(t, index + 1, Wrap(a), neg, ovf \/ ~Fits(m) \/ ~Fits(a))

\* Only a first byte + or - is a sign
SignLen(t) == IF Len(t) > 0 /\ t[1] \in {PLUS, MINUS} THEN 1 ELSE 0

FromRadix10Signed(t) ==
    DigitLoop(t, SignLen(t), 0, Len(t) > 0 /\ t[1] = MINUS, FALSE)

FromRadix10(t) == DigitLoop(t, 0, 0, FALSE, FALSE)

-----------------------------------------------------------------------------
(* decimal_text_to_i128, piece by piece *)

\* line 15: the integer part consumed the whole text
NoFraction(t, k) == k = Len(t)

\* line 18: &text[(num_digits_lhs + 1)..], one byte skipped whatever it is
RhsTextDotOnly(t, k) ==
    IF t[k + 1] = DOT THEN SubSeq(t, k + 2, Len(t)) ELSE SubSeq(t, k + 1, Len(t))
RhsText(t, k) == SubSeq(t, k + 2, Len(t))

ParsedRhs(t, k) ==
    IF NoFraction(t, k) THEN [num |-> 0, len |-> 0, ovf |-> FALSE]
    ELSE FromRadix10(RhsText(t, k))

\* line 25: text[0] is read only when lhs < 0 is false and lhs == 0 is true
ReadsFirstByte(l) == ~(l < 0) /\ l = 0

\* line 25: text[0]; NoByte stands for the index being out of bounds
NoByte == -1
FirstByteOrZero(t) == IF Len(t) > 0 THEN t[1] ELSE ZERO
FirstByte(t) == IF Len(t) > 0 THEN t[1] ELSE NoByte

IndexOutOfBounds(t, l) == ReadsFirstByte(l) /\ FirstByte(t) = NoByte

\* line 25: the condition under which rhs is subtracted
SubtractsRhsNegativeOnly(t, l) == l < 0
SubtractsRhs(t, l) == l < 0 \/ (l = 0 /\ FirstByte(t) = MINUS)

\* lines 25-29: lhs - rhs or lhs + rhs, before wrapping
Combined(t, l, r) == IF SubtractsRhs(t, l) THEN l - r ELSE l + r

\* line 31: left shift n, else right shift it
ShiftsLeft(d, s) == d < s

\* line 34: the number of left shifts
LeftShiftCountScale(d, s) == s
LeftShiftCount(d, s) == s - d

\* line 39: the number of right shifts
RightShiftCountOnce(d, s) == IF d > s THEN 1 ELSE 0
RightShiftCount(d, s) == d - s

\* lines 21-23 and 34-36: x *= 10, k times
RECURSIVE MulTen(_, _)
MulTen(x, k) ==
    IF k = 0 THEN [num |-> x, ovf |-> FALSE]
    ELSE LET m == x * 10
             r == MulTen(Wrap(m), k - 1)
         IN  [num |-> r.num, ovf |-> r.ovf \/ ~Fits(m)]

\* lines 39-41: x /= 10, k times
RECURSIVE DivTen(_, _)
DivTen(x, k) == IF k = 0 THEN x ELSE DivTen(TruncDiv(x, 10), k - 1)

\* The whole function: what a call returns, or that it panics
DecimalTextToI128(t, s, checks) ==
    LET l == FromRadix10Signed(t)
        r == ParsedRhs(t, l.len)
        sh == MulTen(l.num, r.len)
        oob == IndexOutOfBounds(t, sh.num)
        c == IF oob THEN 0 ELSE Combined(t, sh.num, r.num)
        up == MulTen(Wrap(c), LeftShiftCount(r.len, s))
        ovf == l.ovf \/ r.ovf \/ sh.ovf \/ (~oob /\ ~Fits(c))
                 \/ (ShiftsLeft(r.len, s) /\ up.ovf)
        val == IF ShiftsLeft(r.len, s) THEN up.num ELSE DivTen(Wrap(c), RightShiftCount(r.len, s))
    IN  IF oob \/ (checks /\ ovf)
        THEN [status |-> "panic", value |-> 0]
        ELSE [status |-> "done", value |-> val]

-----------------------------------------------------------------------------
(* The call as a state machine *)

\* line 14
ParseLhs ==
    /\ pc = "parse_lhs"
    /\ LET l == FromRadix10Signed(text)
       IN  /\ lhs' = l.num
           /\ num_digits_lhs' = l.len
           /\ overflowed' = l.ovf
           /\ pc' = IF overflow_checks /\ l.ovf THEN "panic" ELSE "parse_rhs"
    /\ UNCHANGED <<sign, int_digits, radix, frac_digits, scale, overflow_checks,
                   rhs, num_digits_rhs, n, i>>
    /\ UNCHANGED cvars

\* lines 15-19
ParseRhs ==
    /\ pc = "parse_rhs"
    /\ LET r == ParsedRhs(text, num_digits_lhs)
       IN  /\ rhs' = r.num
           /\ num_digits_rhs' = r.len
           /\ overflowed' = (overflowed \/ r.ovf)
           /\ pc' = IF overflow_checks /\ r.ovf THEN "panic" ELSE "shift_lhs"
    /\ i' = 0
    /\ UNCHANGED <<sign, int_digits, radix, frac_digits, scale, overflow_checks,
                   lhs, num_digits_lhs, n>>
    /\ UNCHANGED cvars

\* lines 21-23, one iteration
ShiftLhs ==
    /\ pc = "shift_lhs"
    /\ i < num_digits_rhs
    /\ LET m == MulTen(lhs, 1)
       IN  /\ lhs' = m.num
           /\ overflowed' = (overflowed \/ m.ovf)
           /\ pc' = IF overflow_checks /\ m.ovf THEN "panic" ELSE "shift_lhs"
    /\ i' = i + 1
    /\ UNCHANGED <<sign, int_digits, radix, frac_digits, scale, overflow_checks,
                   num_digits_lhs, rhs, num_digits_rhs, n>>
    /\ UNCHANGED cvars

\* lines 25-29
Combine ==
    /\ pc = "shift_lhs"
    /\ i = num_digits_rhs
    /\ IF IndexOutOfBounds(text, lhs)
       THEN /\ pc' = "panic"
            /\ UNCHANGED <<n, overflowed>>
       ELSE LET c == Combined(text, lhs, rhs)
            IN  /\ n' = Wrap(c)
                /\ overflowed' = (overflowed \/ ~Fits(c))
                /\ pc' = IF overflow_checks /\ ~Fits(c) THEN "panic" ELSE "adjust"
    /\ i' = 0
    /\ UNCHANGED <<sign, int_digits, radix, frac_digits, scale, overflow_checks,
                   lhs, num_digits_lhs, rhs, num_digits_rhs>>
    /\ UNCHANGED cvars

\* lines 31-36, one iteration
ScaleUp ==
    /\ pc = "adjust"
    /\ ShiftsLeft(num_digits_rhs, scale)
    /\ i < LeftShiftCount(num_digits_rhs, scale)
    /\ LET m == MulTen(n, 1)
       IN  /\ n' = m.num
           /\ overflowed' = (overflowed \/ m.ovf)
           /\ pc' = IF overflow_checks /\ m.ovf THEN "panic" ELSE "adjust"
    /\ i' = i + 1
    /\ UNCHANGED <<sign, int_digits, radix, frac_digits, scale, overflow_checks,
                   lhs, num_digits_lhs, rhs, num_digits_rhs>>
    /\ UNCHANGED cvars

\* lines 37-42, one iteration
ScaleDown ==
    /\ pc = "adjust"
    /\ ~ShiftsLeft(num_digits_rhs, scale)
    /\ i < RightShiftCount(num_digits_rhs, scale)
    /\ n' = DivTen(n, 1)
    /\ i' = i + 1
    /\ UNCHANGED <<sign, int_digits, radix, frac_digits, scale, overflow_checks, pc,
                   lhs, num_digits_lhs, rhs, num_digits_rhs, overflowed>>
    /\ UNCHANGED cvars

\* line 43
Return ==
    /\ pc = "adjust"
    /\ IF ShiftsLeft(num_digits_rhs, scale)
       THEN i = LeftShiftCount(num_digits_rhs, scale)
       ELSE i = RightShiftCount(num_digits_rhs, scale)
    /\ pc' = "done"
    /\ UNCHANGED <<sign, int_digits, radix, frac_digits, scale, overflow_checks,
                   lhs, num_digits_lhs, rhs, num_digits_rhs, n, i, overflowed>>
    /\ UNCHANGED cvars

DecNext == ParseLhs \/ ParseRhs \/ ShiftLhs \/ Combine \/ ScaleUp \/ ScaleDown \/ Return

\* The inputs: an optional sign, integer digits, an optional radix byte followed
\* by fractional digits
DigitBytes == {ZERO, ZERO + 1, NINE}
RadixBytes == {DOT, COMMA, MINUS, PLUS}
Signs == {<<>>, <<MINUS>>, <<PLUS>>}
IntParts == {<<>>, <<ZERO>>, <<ZERO + 1>>, <<NINE>>, <<ZERO, ZERO>>, <<ZERO + 1, ZERO>>}

SeqsUpTo(S, k) == UNION {[1..m -> S] : m \in 0..k}

DecStart ==
    /\ pc = "parse_lhs"
    /\ lhs = 0 /\ num_digits_lhs = 0 /\ rhs = 0 /\ num_digits_rhs = 0
    /\ n = 0 /\ i = 0 /\ overflowed = FALSE
    /\ overflow_checks \in BOOLEAN

-----------------------------------------------------------------------------
(* SqlReturn, DiagnosticRecord, Error *)

SUCCESS == 0
SUCCESS_WITH_INFO == 1
ERROR == -1
INVALID_HANDLE == -2
STILL_EXECUTING == 2
NEED_DATA == 99
NO_DATA == 100

ReturnCodes == {SUCCESS, SUCCESS_WITH_INFO, ERROR, INVALID_HANDLE, STILL_EXECUTING,
                NEED_DATA, NO_DATA}

\* DiagnosticRecord::default()
DefaultRecord == [state |-> "00000", native_error |-> 0]

\* Records a handle may hold
HandleRecords == {[state |-> "HY000", native_error |-> 1],
                  [state |-> "01000", native_error |-> 2],
                  [state |-> "08001", native_error |-> 3]}

\* Result<(), Error>
Pending == [kind |-> "Pending"]
Ok == [kind |-> "Ok"]
ErrNoDiagnostics == [kind |-> "Err", error |-> "NoDiagnostics"]
ErrDiagnostics(r) == [kind |-> "Err", error |-> "Diagnostics", record |-> r]

\* line 49: the record number asked for
RecNumber == 1

\* rec.fill_from(handle, number): whether a record was found, and rec afterwards
FillFrom(r, h, number) ==
    IF number <= Len(h) THEN [found |-> TRUE, record |-> h[number]]
    ELSE [found |-> FALSE, record |-> r]

LogEvent == [op |-> "log_diagnostics", index |-> 0]
FillEvent(number) == [op |-> "fill_from", index |-> number]

\* line 39: the arm of the match taken
MatchArmFolded(r) ==
    CASE r = SUCCESS -> "success"
      [] r = SUCCESS_WITH_INFO -> "info"
      [] OTHER -> "error"
MatchArm(r) ==
    CASE r = SUCCESS -> "success"
      [] r = SUCCESS_WITH_INFO -> "info"
      [] r = ERROR -> "error"
      [] OTHER -> "unexpected"

\* lines 49-54: the error built from the outcome of fill_from
ErrorOfAlwaysDiagnostics(found, r) == ErrDiagnostics(r)
ErrorOf(found, r) == IF found THEN ErrDiagnostics(r) ELSE ErrNoDiagnostics

\* lines 49-50: log_diagnostics runs in the branch where fill_from returned true
LogsAfterFillAlways(found) == TRUE
LogsAfterFill(found) == found

\* line 41
MatchSuccess ==
    /\ c_pc = "match"
    /\ MatchArm(ret) = "success"
    /\ result' = Ok
    /\ c_pc' = "returned"
    /\ UNCHANGED <<ret, handle, rec, lookups, logs, events>>
    /\ UNCHANGED dvars

\* lines 43-46
MatchSuccessWithInfo ==
    /\ c_pc = "match"
    /\ MatchArm(ret) = "info"
    /\ logs' = logs + 1
    /\ events' = Append(events, LogEvent)
    /\ result' = Ok
    /\ c_pc' = "returned"
    /\ UNCHANGED <<ret, handle, rec, lookups>>
    /\ UNCHANGED dvars

\* lines 47-48
MatchError ==
    /\ c_pc = "match"
    /\ MatchArm(ret) = "error"
    /\ rec' = DefaultRecord
    /\ c_pc' = "fill"
    /\ UNCHANGED <<ret, handle, result, lookups, logs, events>>
    /\ UNCHANGED dvars

\* line 49
Fill ==
    /\ c_pc = "fill"
    /\ LET f == FillFrom(rec, handle, RecNumber)
       IN  /\ rec' = f.record
           /\ c_pc' = IF f.found THEN "filled" ELSE "absent"
    /\ lookups' = lookups + 1
    /\ events' = Append(events, FillEvent(RecNumber))
    /\ UNCHANGED <<ret, handle, result, logs>>
    /\ UNCHANGED dvars

\* lines 50-54
ReturnErr ==
    /\ c_pc \in {"filled", "absent"}
    /\ LET found == (c_pc = "filled")
       IN  /\ logs' = IF LogsAfterFill(found) THEN logs + 1 ELSE logs
           /\ events' = IF LogsAfterFill(found) THEN Append(events, LogEvent) ELSE events
           /\ result' = ErrorOf(found, rec)
    /\ c_pc' = "returned"
    /\ UNCHANGED <<ret, handle, rec, lookups>>
    /\ UNCHANGED dvars

\* line 56
Unexpected ==
    /\ c_pc = "match"
    /\ MatchArm(ret) = "unexpected"
    /\ c_pc' = "panic"
    /\ UNCHANGED <<ret, handle, rec, result, lookups, logs, events>>
    /\ UNCHANGED dvars

ClassifyNext ==
    MatchSuccess \/ MatchSuccessWithInfo \/ MatchError \/ Fill \/ ReturnErr \/ Unexpected

\* No call of into_result under way
ClassifyIdle ==
    /\ c_pc = "idle"
    /\ ret = SUCCESS /\ handle = <<>> /\ rec = DefaultRecord /\ result = Pending
    /\ lookups = 0 /\ logs = 0 /\ events = <<>>

\* No call of decimal_text_to_i128 under way
DecIdle ==
    /\ pc = "idle"
    /\ sign = <<>> /\ int_digits = <<>> /\ radix = <<>> /\ frac_digits = <<>>
    /\ scale = 0 /\ overflow_checks = TRUE
    /\ lhs = 0 /\ num_digits_lhs = 0 /\ rhs = 0 /\ num_digits_rhs = 0
    /\ n = 0 /\ i = 0 /\ overflowed = FALSE

-----------------------------------------------------------------------------
(* Specifications *)

\* decimal_text_to_i128 on short texts
Init ==
    /\ sign \in Signs
    /\ int_digits \in IntParts
    /\ radix \in {<<>>} \cup {<<b>> : b \in RadixBytes}
    /\ frac_digits \in IF radix = <<>> THEN {<<>>} ELSE SeqsUpTo(DigitBytes, MaxFracDigits)
    /\ scale \in 0..MaxScale
    /\ DecStart
    /\ ClassifyIdle

Next == DecNext

Spec == Init /\ [][Next]_vars

\* decimal_text_to_i128 on texts long enough to leave the integer range
InitRange ==
    /\ sign \in {<<>>, <<MINUS>>}
    /\ int_digits \in {<<ZERO>>, <<NINE>>}
    /\ radix \in {<<>>, <<DOT>>}
    /\ frac_digits \in IF radix = <<>> THEN {<<>>}
                       ELSE SeqsUpTo({ZERO, NINE}, MaxRangeFracDigits)
    /\ scale \in 0..MaxRangeScale
    /\ DecStart
    /\ ClassifyIdle

SpecRange == InitRange /\ [][Next]_vars

\* into_result on every return code and handle
InitClassify ==
    /\ ret \in ReturnCodes
    /\ handle \in SeqsUpTo(HandleRecords, MaxRecords)
    /\ c_pc = "match"
    /\ rec = DefaultRecord /\ result = Pending
    /\ lookups = 0 /\ logs = 0 /\ events = <<>>
    /\ DecIdle

SpecClassify == InitClassify /\ [][ClassifyNext]_vars

-----------------------------------------------------------------------------
(* The decimal a text denotes, read off the parts the text is made of *)

RECURSIVE DigitsValue(_)
DigitsValue(ds) ==
    IF ds = <<>> THEN 0
    ELSE DigitsValue(SubSeq(ds, 1, Len(ds) - 1)) * 10 + (ds[Len(ds)] - ZERO)

Zeros(k) == [j \in 1..k |-> ZERO]

\* optional sign, one or more integer digits, then nothing or a radix byte and digits
WellFormed == int_digits # <<>> /\ (radix = <<>> => frac_digits = <<>>)

NumFracDigits == Len(frac_digits)

\* the digits of the value with the radix removed
Magnitude == DigitsValue(int_digits) * Pow(10, NumFracDigits) + DigitsValue(frac_digits)

\* |value * 10^scale|, the digits beyond scale cut off
ScaledMagnitude ==
    IF NumFracDigits <= scale THEN Magnitude * Pow(10, scale - NumFracDigits)
    ELSE Magnitude \div Pow(10, NumFracDigits - scale)

\* value * 10^scale truncated toward zero
ExactScaled == IF sign = <<MINUS>> THEN -ScaledMagnitude ELSE ScaledMagnitude

\* value * 10^scale rounded half up in magnitude, and rounded toward negative infinity
RoundedMagnitude ==
    (Magnitude + 5 * Pow(10, NumFracDigits - scale - 1)) \div Pow(10, NumFracDigits - scale)
FlooredScaled ==
    IF sign = <<MINUS>> THEN -((Magnitude + Pow(10, NumFracDigits - scale) - 1)
                                 \div Pow(10, NumFracDigits - scale))
    ELSE ScaledMagnitude

Returned(v) == [status |-> "done", value |-> v]

Call(t) == DecimalTextToI128(t, scale, overflow_checks)

-----------------------------------------------------------------------------
(* Claims about decimal_text_to_i128 *)

C1Case ==
    /\ sign = <<MINUS>>
    /\ int_digits # <<>>
    /\ \A k \in 1..Len(int_digits) : int_digits[k] = ZERO
    /\ radix # <<>>
    /\ DigitsValue(frac_digits) # 0
    /\ scale >= NumFracDigits

\* C1: a text "-", zeros, a radix byte and d fractional digits of nonzero value f,
\* at a scale >= d, returns -(f * 10^(scale - d)): the call does not panic and the
\* sign is kept although the integer part parses to 0.
C1_NegativeZeroIntegerPart ==
    C1Case =>
        /\ pc # "panic"
        /\ pc = "done" => n = -(DigitsValue(frac_digits) * Pow(10, scale - NumFracDigits))
        /\ pc = "done" => n < 0

C1_Witness ==
    /\ C1Case
    /\ pc = "done"
    /\ text = <<MINUS, ZERO, DOT, ZERO + 1>>
    /\ scale = 2
    /\ n = -10

C2Case == WellFormed /\ radix # <<>> /\ NumFracDigits > scale

C3Case == WellFormed /\ NumFracDigits <= scale

\* the text padded with zeros to scale fractional digits
C3Padded ==
    IF radix = <<>> THEN text \o <<DOT>> \o Zeros(scale)
    ELSE text \o Zeros(scale - NumFracDigits)

\* C3: a well-formed text with d <= scale fractional digits returns the value times
\* 10^scale, which is what the text padded with zeros to scale fractional digits
\* returns; a text with no radix byte returns its integer times 10^scale.
C3_FewerDigitsPadded ==
    (C3Case /\ pc = "done") =>
        /\ n = ExactScaled
        /\ Call(C3Padded) = Returned(n)
        /\ radix = <<>> => n = FromRadix10Signed(text).num * Pow(10, scale)

C3_Witness ==
    /\ C3Case
    /\ pc = "done"
    /\ NumFracDigits < scale
    /\ DigitsValue(frac_digits) # 0
    /\ n = ExactScaled

C3_WitnessNoRadix ==
    /\ C3Case
    /\ pc = "done"
    /\ radix = <<>>
    /\ scale > 0
    /\ n # 0

\* the radix byte is the first byte of the text
RadixAtStart == sign = <<>> /\ int_digits = <<>>

\* C4: with a sign or an integer digit before it, the single radix byte may be
\* replaced by any other non-digit byte, + and - included, and the call returns
\* the same value; a radix byte that starts the text may be replaced by any byte
\* that is no sign.
C4_RadixByteIrrelevant ==
    (pc = "done" /\ radix # <<>>) =>
        \A b \in RadixBytes :
            (RadixAtStart => {b, radix[1]} \cap {PLUS, MINUS} = {}) =>
                Call(sign \o int_digits \o <<b>> \o frac_digits) = Returned(n)

C4_Witness ==
    /\ pc = "done"
    /\ WellFormed
    /\ radix = <<COMMA>>
    /\ DigitsValue(frac_digits) # 0
    /\ n # 0
    /\ Call(sign \o int_digits \o <<MINUS>> \o frac_digits) = Returned(n)
    /\ Call(sign \o int_digits \o <<DOT>> \o frac_digits) = Returned(n)

C7Case == WellFormed /\ radix # <<>> /\ NumFracDigits >= scale

C8_FullRange ==
    (WellFormed /\ Fits(ExactScaled) /\ pc \in {"done", "panic"}) =>
        /\ pc = "done"
        /\ n = ExactScaled
        /\ ~overflowed

\* C10: the empty text parses to integer part 0 with 0 bytes consumed, has no
\* fractional part, and panics on reading text[0]; a non-empty text of an optional
\* sign and digits alone does not panic.
C10_EmptyTextPanics ==
    /\ text = <<>> =>
           /\ pc \in {"parse_lhs", "parse_rhs", "shift_lhs", "panic"}
           /\ pc # "parse_lhs" => (lhs = 0 /\ num_digits_lhs = 0)
           /\ pc \notin {"parse_lhs", "parse_rhs"} => (rhs = 0 /\ num_digits_rhs = 0)
           /\ Call(text).status = "panic"
    /\ (text # <<>> /\ radix = <<>>) =>
           /\ pc # "panic"
           /\ Call(text).status = "done"

C10_Witness == text = <<>> /\ pc = "panic" /\ ~overflowed

-----------------------------------------------------------------------------
(* Claims about into_result *)

Expected == {SUCCESS, SUCCESS_WITH_INFO, ERROR}

\* C5: SUCCESS and SUCCESS_WITH_INFO return Ok(()); ERROR returns
\* Err(Diagnostics(rec)) with the record at index 1 when the handle has one and
\* Err(NoDiagnostics) when it has none; on these codes the call does not panic.
C5_ResultOfClassify ==
    /\ ret \in Expected => c_pc # "panic"
    /\ c_pc = "returned" =>
           /\ ret \in {SUCCESS, SUCCESS_WITH_INFO} => result = Ok
           /\ (ret = ERROR /\ Len(handle) >= 1) => result = ErrDiagnostics(handle[1])
           /\ (ret = ERROR /\ Len(handle) = 0) => result = ErrNoDiagnostics
    /\ c_pc # "returned" => result = Pending

C5_Witness ==
    /\ c_pc = "returned"
    /\ ret = ERROR
    /\ Len(handle) = 2
    /\ result = ErrDiagnostics(handle[1])
    /\ handle[1] # handle[2]

C5_WitnessNoDiagnostics ==
    c_pc = "returned" /\ ret = ERROR /\ handle = <<>> /\ result = ErrNoDiagnostics

\* C6: a call logs at most once and looks up at most once; when it has returned,
\* SUCCESS did neither, SUCCESS_WITH_INFO logged once, ERROR looked up index 1 once
\* and then logged once if a record was there, and not at all if none was.
C6_SideEffects ==
    /\ logs <= 1 /\ lookups <= 1
    /\ logs = Cardinality({k \in 1..Len(events) : events[k] = LogEvent})
    /\ lookups = Cardinality({k \in 1..Len(events) : events[k].op = "fill_from"})
    /\ c_pc = "returned" =>
           /\ ret = SUCCESS => events = <<>>
           /\ ret = SUCCESS_WITH_INFO => events = <<LogEvent>>
           /\ (ret = ERROR /\ Len(handle) >= 1) => events = <<FillEvent(1), LogEvent>>
           /\ (ret = ERROR /\ Len(handle) = 0) => events = <<FillEvent(1)>>

C6_Witness ==
    /\ c_pc = "returned"
    /\ ret = ERROR
    /\ handle = <<>>
    /\ lookups = 1
    /\ logs = 0

\* C9: a return code other than SUCCESS, SUCCESS_WITH_INFO and ERROR ends in the
\* panic: no result is returned and nothing is looked up or logged.
C9_UnexpectedCodePanics ==
    ret \notin Expected =>
        /\ c_pc \in {"match", "panic"}
        /\ result = Pending
        /\ lookups = 0 /\ logs = 0 /\ events = <<>>

C9_Witness == c_pc = "panic" /\ ret = NO_DATA /\ result = Pending /\ Len(handle) > 0

====
